---- MODULE Spec2Model ----
(***************************************************************************)
(* strip-json-comments (src/src/lib.rs): the single-pass byte scanner      *)
(* JsonProcessor, modelled as a state machine.  One run of the machine is  *)
(* one call of strip_json_comments: Init is JsonProcessor::new, the loop   *)
(* of JsonProcessor::process is the two actions ProcessByte and Increment, *)
(* and Finalize is JsonProcessor::finalize.                                *)
(*                                                                         *)
(* Bytes are their integer values.  index, offset and comma_index are      *)
(* 0-based as in the source; TLA+ sequences are 1-based, so the source's   *)
(* bytes[i] is bytes[i + 1] here and the source's bytes[a..b] is           *)
(* Slice(bytes, a, b).                                                     *)
(***************************************************************************)
EXTENDS Integers, Sequences, FiniteSets

\* self: the JsonProcessor (a record of its fields, plus history fields);
\* pc:   the position of JsonProcessor::process in its loop.
VARIABLES self, pc

vars == <<self, pc>>

----------------------------------------------------------------------------
(* The byte values the source names.                                       *)

QUOTE == 34
BACKSLASH == 92
SLASH == 47
STAR == 42
COMMA == 44
RBRACE == 125
RBRACKET == 93
SPACE == 32
TAB == 9
CR == 13
LF == 10

\* Option::None of `next` (no byte after the current one).
NoByte == -1
\* Option::None of comma_index.
NoComma == -1

----------------------------------------------------------------------------
(* Bounds of the model and the inputs it enumerates.                       *)

\* The longest input over Alphabet, and the longest over CoreAlphabet.
MaxLen == 3
MaxCoreLen == 4

\* Every byte the scanner tests for and one plain byte ('a').
Alphabet ==
    {QUOTE, BACKSLASH, SLASH, STAR, COMMA, RBRACKET, RBRACE, SPACE, TAB, LF, CR, 97}

\* The bytes of strings, comments and trailing commas, for longer inputs.
CoreAlphabet == {QUOTE, BACKSLASH, SLASH, STAR, COMMA, RBRACKET, LF}

Strings(alpha, n) == UNION {[1..k -> alpha] : k \in 0..n}

\* The inputs the model runs the scanner on.
Inputs == Strings(Alphabet, MaxLen) \cup Strings(CoreAlphabet, MaxCoreLen)

\* The most characters of an input of well-formed UTF-8.
MaxChars == 4

\* The characters of those inputs, each as its UTF-8 encoding: six ASCII
\* characters the scanner tests for, U+00E9 (two bytes) and U+20AC (three).
Utf8Chars ==
    {<<SLASH>>, <<STAR>>, <<LF>>, <<COMMA>>, <<RBRACKET>>, <<QUOTE>>,
     <<195, 169>>, <<226, 130, 172>>}

\* The encodings of the texts of at most n of those characters.
RECURSIVE Utf8Strings(_)
Utf8Strings(n) ==
    IF n = 0
    THEN {<<>>}
    ELSE LET shorter == Utf8Strings(n - 1)
         IN  shorter \cup {c \o t : c \in Utf8Chars, t \in shorter}

\* The inputs of the runs on well-formed UTF-8 (json_string: String).
Utf8Inputs == Utf8Strings(MaxChars)

\* The longest input over CommentAlphabet.
MaxCommentLen == 5

\* The bytes of comments and their terminators, a quote and a plain byte.
CommentAlphabet == {SLASH, STAR, CR, LF, QUOTE, 97}

\* The inputs of the runs on comments.
CommentInputs == Strings(CommentAlphabet, MaxCommentLen)

----------------------------------------------------------------------------
(* Helpers for slices.                                                     *)

\* &bytes[start..end]
Slice(b, start, end) == SubSeq(b, start + 1, end)

\* The 1-based input positions of &bytes[start..end], in order.
SrcSlice(start, end) == [k \in 1..(end - start) |-> start + k]

\* &buffer[1..]
Tail1(q) == SubSeq(q, 2, Len(q))

\* matches!(byte, b' ' | b'\t' | b'\r' | b'\n')
IsWhitespace(byte) == byte \in {SPACE, TAB, CR, LF}

----------------------------------------------------------------------------
(* JsonProcessor                                                           *)

\* self.len
len(s) == Len(s.bytes)

\* JsonProcessor::new.  buffer_src and result_src are history fields: for
\* every byte of buffer and result, the 1-based input position it was
\* copied or blanked from (0 for the space pushed in place of a stripped
\* comma).  candidates is the history of the commas recorded in
\* comma_index and stripped that of the commas stripped as trailing (their
\* 1-based input positions).  slices_ok is the history of the slices taken:
\* it holds as long as every &bytes[a..b] taken had a <= b <= len and
\* &buffer[1..] was taken from a non-empty buffer.  iterations counts the
\* iterations of the loop of process.
new(input, whitespace, trailing_commas) ==
    [bytes |-> input,
     index |-> 0,
     offset |-> 0,
     is_inside_string |-> FALSE,
     is_inside_comment |-> "None",
     buffer |-> <<>>,
     result |-> <<>>,
     comma_index |-> NoComma,
     whitespace |-> whitespace,
     trailing_commas |-> trailing_commas,
     buffer_src |-> <<>>,
     result_src |-> <<>>,
     stripped |-> {},
     candidates |-> {},
     slices_ok |-> TRUE,
     iterations |-> 0]

\* The loop of is_escaped: the number of `\` bytes met walking back from idx.
RECURSIVE backslash_count(_, _)
backslash_count(b, idx) ==
    IF idx > 0 /\ b[idx] = BACKSLASH
    THEN 1 + backslash_count(b, idx - 1)
    ELSE 0

\* is_escaped as it would be if it tested only the byte before the quote.
is_escaped_one_back(s) == s.index > 0 /\ s.bytes[s.index] = BACKSLASH

\* JsonProcessor::is_escaped
is_escaped(s) == backslash_count(s.bytes, s.index) % 2 = 1

\* JsonProcessor::flush_to_buffer
flush_to_buffer(s, end) ==
    IF s.offset < end
    THEN [s EXCEPT !.buffer = @ \o Slice(s.bytes, s.offset, end),
                   !.buffer_src = @ \o SrcSlice(s.offset, end),
                   !.slices_ok = @ /\ end <= len(s)]
    ELSE s

\* JsonProcessor::flush_to_result
flush_to_result(s, end) ==
    IF s.offset < end
    THEN [s EXCEPT !.result = @ \o Slice(s.bytes, s.offset, end),
                   !.result_src = @ \o SrcSlice(s.offset, end),
                   !.slices_ok = @ /\ end <= len(s)]
    ELSE s

\* strip_byte as it would be if `\r` were missing from the bytes it keeps.
strip_byte_drops_cr(byte) == IF byte \in {SPACE, TAB, LF} THEN byte ELSE SPACE

\* strip_byte as it would be if it kept the lead bytes of multi-byte
\* sequences (the bytes from 0xC0 on).
strip_byte_keeps_lead(byte) ==
    IF IsWhitespace(byte) \/ byte >= 192 THEN byte ELSE SPACE

\* The byte strip_and_append_to_buffer pushes for one byte of the range.
strip_byte(byte) == IF IsWhitespace(byte) THEN byte ELSE SPACE

\* strip_and_append_to_buffer as it would be if, with whitespace = false,
\* it appended the range as it is.
strip_and_append_to_buffer_raw(s, start, end) ==
    [s EXCEPT !.buffer = @ \o [k \in 1..(end - start) |->
                                  IF s.whitespace
                                  THEN strip_byte(s.bytes[start + k])
                                  ELSE s.bytes[start + k]],
              !.buffer_src = @ \o SrcSlice(start, end)]

\* JsonProcessor::strip_and_append_to_buffer
strip_and_append_to_buffer(s, start, end) ==
    IF s.whitespace
    THEN [s EXCEPT !.buffer = @ \o [k \in 1..(end - start) |->
                                        strip_byte(s.bytes[start + k])],
                   !.buffer_src = @ \o SrcSlice(start, end),
                   !.slices_ok = @ /\ start <= end /\ end <= len(s)]
    ELSE s

\* handle_comment_transition as it would be if entering a comment did not
\* advance past the second byte of `//` or `/*`.
handle_comment_transition_rescans_opener(s, current, next) ==
    IF s.is_inside_comment = "None" /\ current = SLASH /\ next = SLASH
    THEN LET s1 == flush_to_buffer(s, s.index)
         IN  [self |-> [s1 EXCEPT !.offset = s.index,
                                  !.is_inside_comment = "Single"],
              ret |-> TRUE]
    ELSE IF s.is_inside_comment = "Single" /\ current = CR /\ next = LF
    THEN LET s1 == [s EXCEPT !.index = s.index + 2,
                             !.is_inside_comment = "None"]
             s2 == strip_and_append_to_buffer(s1, s1.offset, s1.index)
         IN  [self |-> [s2 EXCEPT !.offset = s1.index,
                                  !.index = s1.index - 1],
              ret |-> TRUE]
    ELSE IF s.is_inside_comment = "Single" /\ current = LF
    THEN LET s1 == [s EXCEPT !.is_inside_comment = "None"]
             s2 == strip_and_append_to_buffer(s1, s1.offset, s1.index)
         IN  [self |-> [s2 EXCEPT !.offset = s1.index],
              ret |-> TRUE]
    ELSE IF s.is_inside_comment = "None" /\ current = SLASH /\ next = STAR
    THEN LET s1 == flush_to_buffer(s, s.index)
         IN  [self |-> [s1 EXCEPT !.offset = s.index,
                                  !.is_inside_comment = "Multi"],
              ret |-> TRUE]
    ELSE IF s.is_inside_comment = "Multi" /\ current = STAR /\ next = SLASH
    THEN LET s1 == [s EXCEPT !.index = s.index + 2,
                             !.is_inside_comment = "None"]
             s2 == strip_and_append_to_buffer(s1, s1.offset, s1.index)
         IN  [self |-> [s2 EXCEPT !.offset = s1.index,
                                  !.index = s1.index - 1],
              ret |-> TRUE]
    ELSE [self |-> s, ret |-> FALSE]

\* handle_comment_transition as it would be if the exit via \r\n ended the
\* comment span after the \r.
handle_comment_transition_ends_at_cr(s, current, next) ==
    IF s.is_inside_comment = "None" /\ current = SLASH /\ next = SLASH
    THEN LET s1 == flush_to_buffer(s, s.index)
         IN  [self |-> [s1 EXCEPT !.offset = s.index,
                                  !.is_inside_comment = "Single",
                                  !.index = s.index + 1],
              ret |-> TRUE]
    ELSE IF s.is_inside_comment = "Single" /\ current = CR /\ next = LF
    THEN LET s1 == [s EXCEPT !.index = s.index + 1,
                             !.is_inside_comment = "None"]
             s2 == strip_and_append_to_buffer(s1, s1.offset, s1.index)
         IN  [self |-> [s2 EXCEPT !.offset = s1.index],
              ret |-> TRUE]
    ELSE IF s.is_inside_comment = "Single" /\ current = LF
    THEN LET s1 == [s EXCEPT !.is_inside_comment = "None"]
             s2 == strip_and_append_to_buffer(s1, s1.offset, s1.index)
         IN  [self |-> [s2 EXCEPT !.offset = s1.index],
              ret |-> TRUE]
    ELSE IF s.is_inside_comment = "None" /\ current = SLASH /\ next = STAR
    THEN LET s1 == flush_to_buffer(s, s.index)
         IN  [self |-> [s1 EXCEPT !.offset = s.index,
                                  !.is_inside_comment = "Multi",
                                  !.index = s.index + 1],
              ret |-> TRUE]
    ELSE IF s.is_inside_comment = "Multi" /\ current = STAR /\ next = SLASH
    THEN LET s1 == [s EXCEPT !.index = s.index + 2,
                             !.is_inside_comment = "None"]
             s2 == strip_and_append_to_buffer(s1, s1.offset, s1.index)
         IN  [self |-> [s2 EXCEPT !.offset = s1.index,
                                  !.index = s1.index - 1],
              ret |-> TRUE]
    ELSE [self |-> s, ret |-> FALSE]

\* handle_comment_transition as it would be if the two exits that advance
\* past both bytes left out their `index -= 1`.
handle_comment_transition_no_step_back(s, current, next) ==
    IF s.is_inside_comment = "None" /\ current = SLASH /\ next = SLASH
    THEN LET s1 == flush_to_buffer(s, s.index)
         IN  [self |-> [s1 EXCEPT !.offset = s.index,
                                  !.is_inside_comment = "Single",
                                  !.index = s.index + 1],
              ret |-> TRUE]
    ELSE IF s.is_inside_comment = "Single" /\ current = CR /\ next = LF
    THEN LET s1 == [s EXCEPT !.index = s.index + 2,
                             !.is_inside_comment = "None"]
             s2 == strip_and_append_to_buffer(s1, s1.offset, s1.index)
         IN  [self |-> [s2 EXCEPT !.offset = s1.index],
              ret |-> TRUE]
    ELSE IF s.is_inside_comment = "Single" /\ current = LF
    THEN LET s1 == [s EXCEPT !.is_inside_comment = "None"]
             s2 == strip_and_append_to_buffer(s1, s1.offset, s1.index)
         IN  [self |-> [s2 EXCEPT !.offset = s1.index],
              ret |-> TRUE]
    ELSE IF s.is_inside_comment = "None" /\ current = SLASH /\ next = STAR
    THEN LET s1 == flush_to_buffer(s, s.index)
         IN  [self |-> [s1 EXCEPT !.offset = s.index,
                                  !.is_inside_comment = "Multi",
                                  !.index = s.index + 1],
              ret |-> TRUE]
    ELSE IF s.is_inside_comment = "Multi" /\ current = STAR /\ next = SLASH
    THEN LET s1 == [s EXCEPT !.index = s.index + 2,
                             !.is_inside_comment = "None"]
             s2 == strip_and_append_to_buffer(s1, s1.offset, s1.index)
         IN  [self |-> [s2 EXCEPT !.offset = s1.index],
              ret |-> TRUE]
    ELSE [self |-> s, ret |-> FALSE]

\* JsonProcessor::handle_comment_transition: the processor after the call
\* and the value returned.
handle_comment_transition(s, current, next) ==
    IF s.is_inside_comment = "None" /\ current = SLASH /\ next = SLASH
    THEN \* Enter single-line comment
         LET s1 == flush_to_buffer(s, s.index)
         IN  [self |-> [s1 EXCEPT !.offset = s.index,
                                  !.is_inside_comment = "Single",
                                  !.index = s.index + 1],
              ret |-> TRUE]
    ELSE IF s.is_inside_comment = "Single" /\ current = CR /\ next = LF
    THEN \* Exit single-line comment via \r\n
         LET s1 == [s EXCEPT !.index = s.index + 2,
                             !.is_inside_comment = "None"]
             s2 == strip_and_append_to_buffer(s1, s1.offset, s1.index)
         IN  [self |-> [s2 EXCEPT !.offset = s1.index,
                                  !.index = s1.index - 1],
              ret |-> TRUE]
    ELSE IF s.is_inside_comment = "Single" /\ current = LF
    THEN \* Exit single-line comment via \n
         LET s1 == [s EXCEPT !.is_inside_comment = "None"]
             s2 == strip_and_append_to_buffer(s1, s1.offset, s1.index)
         IN  [self |-> [s2 EXCEPT !.offset = s1.index],
              ret |-> TRUE]
    ELSE IF s.is_inside_comment = "None" /\ current = SLASH /\ next = STAR
    THEN \* Enter multiline comment
         LET s1 == flush_to_buffer(s, s.index)
         IN  [self |-> [s1 EXCEPT !.offset = s.index,
                                  !.is_inside_comment = "Multi",
                                  !.index = s.index + 1],
              ret |-> TRUE]
    ELSE IF s.is_inside_comment = "Multi" /\ current = STAR /\ next = SLASH
    THEN \* Exit multiline comment
         LET s1 == [s EXCEPT !.index = s.index + 2,
                             !.is_inside_comment = "None"]
             s2 == strip_and_append_to_buffer(s1, s1.offset, s1.index)
         IN  [self |-> [s2 EXCEPT !.offset = s1.index,
                                  !.index = s1.index - 1],
              ret |-> TRUE]
    ELSE [self |-> s, ret |-> FALSE]

\* strip_trailing_comma as it would be if it pushed no space.
strip_trailing_comma_no_space(s) ==
    LET s1 == flush_to_buffer(s, s.index)
        s2 == IF s1.buffer # <<>>
              THEN [s1 EXCEPT
                      !.result = @ \o Tail1(s1.buffer),
                      !.result_src = @ \o Tail1(s1.buffer_src),
                      !.stripped = @ \cup {s1.buffer_src[1]}]
              ELSE s1
    IN  [s2 EXCEPT !.buffer = <<>>,
                   !.buffer_src = <<>>,
                   !.offset = s.index,
                   !.comma_index = NoComma]

\* strip_trailing_comma as it would be if it took &buffer[0..] for
\* &buffer[1..].
strip_trailing_comma_keeps_comma(s) ==
    LET s1 == flush_to_buffer(s, s.index)
        s2 == IF s1.buffer # <<>>
              THEN [s1 EXCEPT
                      !.result = (IF s1.whitespace THEN @ \o <<SPACE>> ELSE @)
                                     \o s1.buffer,
                      !.result_src = (IF s1.whitespace THEN @ \o <<0>> ELSE @)
                                     \o s1.buffer_src]
              ELSE s1
    IN  [s2 EXCEPT !.buffer = <<>>,
                   !.buffer_src = <<>>,
                   !.offset = s.index,
                   !.comma_index = NoComma]

\* handle_trailing_comma, candidate open, current is `}` or `]`.
strip_trailing_comma(s) ==
    LET s1 == flush_to_buffer(s, s.index)
        s2 == IF s1.buffer # <<>>
              THEN [s1 EXCEPT
                      !.result = (IF s1.whitespace THEN @ \o <<SPACE>> ELSE @)
                                     \o Tail1(s1.buffer),
                      !.result_src = (IF s1.whitespace THEN @ \o <<0>> ELSE @)
                                     \o Tail1(s1.buffer_src),
                      !.stripped = @ \cup {s1.buffer_src[1]},
                      !.slices_ok = @ /\ Len(s1.buffer) >= 1]
              ELSE s1
    IN  [s2 EXCEPT !.buffer = <<>>,
                   !.buffer_src = <<>>,
                   !.offset = s.index,
                   !.comma_index = NoComma]

\* keep_comma as it would be without its flush_to_buffer.
keep_comma_no_flush(s) ==
    [s EXCEPT !.offset = s.index,
              !.comma_index = NoComma]

\* handle_trailing_comma, candidate open, current is neither a closing
\* bracket nor whitespace.
keep_comma(s) ==
    LET s1 == flush_to_buffer(s, s.index)
    IN  [s1 EXCEPT !.offset = s.index,
                   !.comma_index = NoComma]

\* record_comma as it would be if it set offset past the comma.
record_comma_offset_past(s) ==
    LET s1 == [s EXCEPT !.result = @ \o s.buffer,
                        !.result_src = @ \o s.buffer_src,
                        !.buffer = <<>>,
                        !.buffer_src = <<>>]
        s2 == flush_to_result(s1, s1.index)
    IN  [s2 EXCEPT !.buffer = <<>>,
                   !.buffer_src = <<>>,
                   !.offset = s.index + 1,
                   !.comma_index = s.index,
                   !.candidates = @ \cup {s.index + 1}]

\* record_comma as it would be if it flushed the input up to the comma to
\* the result before it appended the buffer.
record_comma_flush_first(s) ==
    LET s1 == flush_to_result(s, s.index)
        s2 == [s1 EXCEPT !.result = @ \o s.buffer,
                         !.result_src = @ \o s.buffer_src]
    IN  [s2 EXCEPT !.buffer = <<>>,
                   !.buffer_src = <<>>,
                   !.offset = s.index,
                   !.comma_index = s.index,
                   !.candidates = @ \cup {s.index + 1}]

\* handle_trailing_comma, no candidate open, current is `,`.
record_comma(s) ==
    LET s1 == [s EXCEPT !.result = @ \o s.buffer,
                        !.result_src = @ \o s.buffer_src,
                        !.buffer = <<>>,
                        !.buffer_src = <<>>]
        s2 == flush_to_result(s1, s1.index)
    IN  [s2 EXCEPT !.buffer = <<>>,
                   !.buffer_src = <<>>,
                   !.offset = s.index,
                   !.comma_index = s.index,
                   !.candidates = @ \cup {s.index + 1}]

\* JsonProcessor::handle_trailing_comma
handle_trailing_comma(s, current) ==
    IF s.comma_index # NoComma
    THEN IF current = RBRACE \/ current = RBRACKET
         THEN strip_trailing_comma(s)
         ELSE IF ~IsWhitespace(current)
         THEN keep_comma(s)
         ELSE s
    ELSE IF current = COMMA
    THEN record_comma(s)
    ELSE s

\* toggle_string as it would be without the test for no comment.
toggle_string_in_comment(s, current) ==
    IF current = QUOTE /\ ~is_escaped(s)
    THEN [s EXCEPT !.is_inside_string = ~@]
    ELSE s

\* The string-boundary step of process_byte.
toggle_string(s, current) ==
    IF s.is_inside_comment = "None" /\ current = QUOTE /\ ~is_escaped(s)
    THEN [s EXCEPT !.is_inside_string = ~@]
    ELSE s

\* process_byte as it would be without the return taken inside a string.
process_byte_no_string_skip(s) ==
    LET current == s.bytes[s.index + 1]
        next == IF s.index + 1 < len(s) THEN s.bytes[s.index + 2] ELSE NoByte
        s1 == toggle_string(s, current)
        t == handle_comment_transition(s1, current, next)
    IN  IF t.ret
        THEN t.self
        ELSE IF s1.trailing_commas /\ s1.is_inside_comment = "None"
        THEN handle_trailing_comma(s1, current)
        ELSE s1

\* JsonProcessor::process_byte
process_byte(s) ==
    LET current == s.bytes[s.index + 1]
        next == IF s.index + 1 < len(s) THEN s.bytes[s.index + 2] ELSE NoByte
        s1 == toggle_string(s, current)
        t == handle_comment_transition(s1, current, next)
    IN  IF s1.is_inside_string
        THEN s1
        ELSE IF t.ret
        THEN t.self
        ELSE IF s1.trailing_commas /\ s1.is_inside_comment = "None"
        THEN handle_trailing_comma(s1, current)
        ELSE s1

\* finalize as it would be without the case of a single-line comment.
finalize_flushes_always(s) ==
    LET s1 == flush_to_buffer(s, len(s))
    IN  [s1 EXCEPT !.result = @ \o s1.buffer,
                   !.result_src = @ \o s1.buffer_src,
                   !.buffer = <<>>,
                   !.buffer_src = <<>>]

\* finalize as it would be if it closed a multi-line comment too.
finalize_strips_any_comment(s) ==
    LET s1 == IF s.is_inside_comment # "None"
              THEN strip_and_append_to_buffer(s, s.offset, len(s))
              ELSE flush_to_buffer(s, len(s))
    IN  [s1 EXCEPT !.result = @ \o s1.buffer,
                   !.result_src = @ \o s1.buffer_src,
                   !.buffer = <<>>,
                   !.buffer_src = <<>>]

\* JsonProcessor::finalize; the String returned is the result field.
finalize(s) ==
    LET s1 == IF s.is_inside_comment = "Single"
              THEN strip_and_append_to_buffer(s, s.offset, len(s))
              ELSE flush_to_buffer(s, len(s))
    IN  [s1 EXCEPT !.result = @ \o s1.buffer,
                   !.result_src = @ \o s1.buffer_src,
                   !.buffer = <<>>,
                   !.buffer_src = <<>>]

----------------------------------------------------------------------------
(* JsonProcessor::process and strip_json_comments                          *)

\* strip_json_comments: the options resolved, the processor constructed.
Init ==
    \E input \in Inputs, whitespace \in BOOLEAN, trailing_commas \in BOOLEAN :
        /\ self = new(input, whitespace, trailing_commas)
        /\ pc = "loop"

\* while self.index < self.len { self.process_byte();
ProcessByte ==
    /\ pc = "loop"
    /\ self.index < len(self)
    /\ self' = [process_byte(self) EXCEPT !.iterations = @ + 1]
    /\ pc' = "inc"

\* self.index += 1; }
Increment ==
    /\ pc = "inc"
    /\ self' = [self EXCEPT !.index = @ + 1]
    /\ pc' = "loop"

\* self.finalize()
Finalize ==
    /\ pc = "loop"
    /\ ~(self.index < len(self))
    /\ self' = finalize(self)
    /\ pc' = "done"

Next == ProcessByte \/ Increment \/ Finalize

Spec == Init /\ [][Next]_vars

\* strip_json_comments called on a String holding multi-byte characters.
InitUtf8 ==
    \E input \in Utf8Inputs, whitespace \in BOOLEAN, trailing_commas \in BOOLEAN :
        /\ self = new(input, whitespace, trailing_commas)
        /\ pc = "loop"

SpecUtf8 == InitUtf8 /\ [][Next]_vars

\* strip_json_comments called on a text of comments and line endings.
InitComments ==
    \E input \in CommentInputs, whitespace \in BOOLEAN, trailing_commas \in BOOLEAN :
        /\ self = new(input, whitespace, trailing_commas)
        /\ pc = "loop"

SpecComments == InitComments /\ [][Next]_vars

\* JsonProcessor::process as a function: the loop run to its end, then
\* finalize.
RECURSIVE process(_)
process(s) ==
    IF s.index < len(s)
    THEN process([process_byte(s) EXCEPT !.index = @ + 1])
    ELSE finalize(s)

\* strip_json_comments as a function of the input and the resolved
\* options: the bytes of the String returned.
strip_json_comments(json_string, whitespace, trailing_commas) ==
    process(new(json_string, whitespace, trailing_commas)).result

----------------------------------------------------------------------------
(* The vocabulary of the properties: strings, comment spans and trailing   *)
(* commas of a byte sequence, defined on the text alone.                   *)

Range(q) == {q[k] : k \in 1..Len(q)}

\* The number of consecutive `\` bytes immediately before position i.
BackslashRun(b, i) ==
    CHOOSE k \in 0..(i - 1) :
        /\ \A j \in (i - k)..(i - 1) : b[j] = BACKSLASH
        /\ (k < i - 1 => b[i - k - 1] # BACKSLASH)

UnescapedQuote(b, i) == b[i] = QUOTE /\ BackslashRun(b, i) % 2 = 0

\* Position i of a text without comments lies outside every string literal.
OutsideString(b, i) ==
    Cardinality({j \in 1..(i - 1) : UnescapedQuote(b, j)}) % 2 = 0

BalancedQuotes(b) ==
    Cardinality({j \in 1..Len(b) : UnescapedQuote(b, j)}) % 2 = 0

\* Position i is followed by zero or more whitespace bytes and then `}` or `]`.
BeforeCloser(b, i) ==
    \E j \in (i + 1)..Len(b) :
        /\ b[j] \in {RBRACE, RBRACKET}
        /\ \A k \in (i + 1)..(j - 1) : b[k] \in {SPACE, TAB, CR, LF}

\* The position of that `}` or `]`.
CloserAfter(b, i) ==
    CHOOSE j \in (i + 1)..Len(b) :
        /\ b[j] \in {RBRACE, RBRACKET}
        /\ \A k \in (i + 1)..(j - 1) : b[k] \in {SPACE, TAB, CR, LF}

\* A `*/` at or after position i.
HasClose(b, i) == \E j \in i..(Len(b) - 1) : b[j] = STAR /\ b[j + 1] = SLASH

Is(b, i, byte) == i <= Len(b) /\ b[i] = byte

\* The kind of every position from i on, and the position its string or
\* comment starts at:
\*   "N"    outside strings and comments     "Q"   a string's delimiter
\*   "S"    inside a string                  "L"   single-line comment
\*   "LF"   the lone \n ending one           "CRLF" the \r\n ending one
\*   "B"    terminated multi-line comment    "U"   unterminated one
RECURSIVE Lex(_, _, _, _)
Lex(b, i, mode, st) ==
    IF i > Len(b) THEN <<>>
    ELSE IF mode = "N" THEN
        IF UnescapedQuote(b, i)
        THEN <<[k |-> "Q", st |-> i]>> \o Lex(b, i + 1, "S", i)
        ELSE IF b[i] = SLASH /\ Is(b, i + 1, SLASH)
        THEN <<[k |-> "L", st |-> i], [k |-> "L", st |-> i]>> \o Lex(b, i + 2, "L", i)
        ELSE IF b[i] = SLASH /\ Is(b, i + 1, STAR)
        THEN IF HasClose(b, i + 2)
             THEN <<[k |-> "B", st |-> i], [k |-> "B", st |-> i]>> \o Lex(b, i + 2, "B", i)
             ELSE [j \in 1..(Len(b) - i + 1) |-> [k |-> "U", st |-> i]]
        ELSE <<[k |-> "N", st |-> i]>> \o Lex(b, i + 1, "N", 0)
    ELSE IF mode = "S" THEN
        IF UnescapedQuote(b, i)
        THEN <<[k |-> "Q", st |-> st]>> \o Lex(b, i + 1, "N", 0)
        ELSE <<[k |-> "S", st |-> st]>> \o Lex(b, i + 1, "S", st)
    ELSE IF mode = "L" THEN
        IF b[i] = CR /\ Is(b, i + 1, LF)
        THEN <<[k |-> "CRLF", st |-> st], [k |-> "CRLF", st |-> st]>> \o Lex(b, i + 2, "N", 0)
        ELSE IF b[i] = LF
        THEN <<[k |-> "LF", st |-> st]>> \o Lex(b, i + 1, "N", 0)
        ELSE <<[k |-> "L", st |-> st]>> \o Lex(b, i + 1, "L", st)
    ELSE \* mode = "B"
        IF b[i] = STAR /\ Is(b, i + 1, SLASH)
        THEN <<[k |-> "B", st |-> st], [k |-> "B", st |-> st]>> \o Lex(b, i + 2, "N", 0)
        ELSE <<[k |-> "B", st |-> st]>> \o Lex(b, i + 1, "B", st)

Kinds(b) == Lex(b, 1, "N", 0)

\* The kinds of the positions of a comment span.
SpanKinds == {"L", "LF", "CRLF", "B"}

\* A byte of a span under whitespace = true.
Blanked(byte) == IF byte \in {SPACE, TAB, CR, LF} THEN byte ELSE SPACE

\* The place in the output of input position i (0 when it is not emitted).
Image(s, i) ==
    IF i \in Range(s.result_src)
    THEN CHOOSE k \in 1..Len(s.result_src) : s.result_src[k] = i
    ELSE 0

\* Input position i is emitted exactly once and unchanged.
EmittedUnchanged(s, i) ==
    /\ Cardinality({k \in 1..Len(s.result_src) : s.result_src[k] = i}) = 1
    /\ s.result[Image(s, i)] = s.bytes[i]

Done == pc = "done"

----------------------------------------------------------------------------
(* C1 .. C5                                                                *)

\* C1: with trailingCommas = true and an input with balanced quotes, for
\* both whitespace settings, the output holds no comma that lies outside a
\* string literal and is followed by zero or more whitespace bytes and then
\* a `}` or `]`.
C1_NoTrailingCommaInOutput ==
    (Done /\ self.trailing_commas /\ BalancedQuotes(self.bytes)) =>
        \A i \in 1..Len(self.result) :
            (self.result[i] = COMMA /\ OutsideString(self.result, i))
                => ~BeforeCloser(self.result, i)

\* C2: string immunity.  Under every option combination: once a byte
\* inside a string literal has been processed the scanner is in string
\* context and in no comment (so `//`, `/*` and `*/` there neither start nor
\* end a comment); no comma inside a string is ever the trailing-comma
\* candidate or stripped; and at the end every byte inside a string literal
\* has been emitted exactly once and unchanged.
C2_StringImmunity ==
    LET kinds == Kinds(self.bytes)
    IN  /\ (pc = "inc" /\ kinds[self.index + 1].k = "S") =>
              /\ self.is_inside_string
              /\ self.is_inside_comment = "None"
        /\ self.comma_index # NoComma => kinds[self.comma_index + 1].k = "N"
        /\ \A c \in self.candidates \cup self.stripped : kinds[c].k = "N"
        /\ Done => \A i \in 1..Len(self.bytes) :
              kinds[i].k = "S" => EmittedUnchanged(self, i)

\* C2's case: the scan of an input with `//`, `/*` or `,]` inside a
\* terminated string literal has ended, trailing commas being stripped.
C2_Witness ==
    /\ Done
    /\ self.trailing_commas
    /\ ~self.whitespace
    /\ \E i \in 1..(Len(self.bytes) - 2) :
          /\ Kinds(self.bytes)[i].k = "S"
          /\ Kinds(self.bytes)[i + 1].k = "S"
          /\ \/ self.bytes[i] = SLASH /\ self.bytes[i + 1] \in {SLASH, STAR}
             \/ self.bytes[i] = COMMA /\ self.bytes[i + 1] = RBRACKET
          /\ Kinds(self.bytes)[i + 2].k = "Q"

\* C3: a `"` processed while the scanner is in no comment toggles the
\* string flag if and only if the number of consecutive `\` bytes
\* immediately before it is even.
C3_EscapedQuote ==
    [][(/\ pc = "loop"
        /\ pc' = "inc"
        /\ self.is_inside_comment = "None"
        /\ self.bytes[self.index + 1] = QUOTE)
        => ((self'.is_inside_string # self.is_inside_string)
                <=> (BackslashRun(self.bytes, self.index + 1) % 2 = 0))]_vars

\* C3's case: inside a string, `\\"` has just ended the string.
C3_Witness ==
    /\ pc = "inc"
    /\ self.bytes = <<QUOTE, BACKSLASH, BACKSLASH, QUOTE>>
    /\ self.index = 3
    /\ ~self.is_inside_string

\* An input without `//` or `/*` outside a string literal and without a
\* comma, outside a string, followed by optional whitespace and `}` or `]`.
Clean(b) ==
    /\ \A i \in 1..(Len(b) - 1) :
          (b[i] = SLASH /\ b[i + 1] \in {SLASH, STAR}) => ~OutsideString(b, i)
    /\ \A i \in 1..Len(b) :
          (b[i] = COMMA /\ OutsideString(b, i)) => ~BeforeCloser(b, i)

\* C4: identity on clean input: a clean input is returned byte for byte,
\* under all four option combinations.
C4_IdentityOnClean ==
    (Done /\ Clean(self.bytes)) => self.result = self.bytes

\* C4's case: a clean input with a comma outside strings and a `}` after
\* it has been scanned with trailingCommas = true (the comma was a
\* candidate and was kept).
C4_Witness ==
    /\ Done
    /\ self.trailing_commas
    /\ Clean(self.bytes)
    /\ \E i, j \in 1..Len(self.bytes) :
          /\ i + 1 < j
          /\ i \in self.candidates
          /\ self.bytes[j] = RBRACE
          /\ OutsideString(self.bytes, j)

\* C5: position-preserving blanking.  With whitespace = true and
\* trailingCommas = false the output has the length of the input; at a
\* position of a comment span it holds the input's byte if that is space,
\* tab, CR or LF and a space otherwise; at any other position it holds the
\* input's byte.
C5_PositionPreservingBlanking ==
    (Done /\ self.whitespace /\ ~self.trailing_commas) =>
        LET kinds == Kinds(self.bytes)
        IN  /\ Len(self.result) = Len(self.bytes)
            /\ \A i \in 1..Len(self.bytes) :
                  self.result[i] = IF kinds[i].k \in SpanKinds
                                   THEN Blanked(self.bytes[i])
                                   ELSE self.bytes[i]

\* C5's case: a comment span holding a line feed, which is kept, and a
\* byte that is blanked, and a byte outside the span.
C5_Witness ==
    /\ Done
    /\ self.whitespace
    /\ ~self.trailing_commas
    /\ \E i, j, k \in 1..Len(self.bytes) :
          /\ Kinds(self.bytes)[i].k \in SpanKinds /\ self.bytes[i] = LF
          /\ Kinds(self.bytes)[j].k \in SpanKinds /\ self.bytes[j] = SLASH
          /\ Kinds(self.bytes)[k].k \notin SpanKinds

----------------------------------------------------------------------------
(* C6 .. C10                                                               *)

\* C6 as stated: with whitespace = true the output length is the input
\* length minus the number of commas stripped as trailing.
C6_LengthMinusStrippedCommas ==
    (Done /\ self.whitespace) =>
        Len(self.result) = Len(self.bytes) - Cardinality(self.stripped)

\* C6, amended: with whitespace = true the output length is the input
\* length: every comma stripped as trailing is replaced by exactly one
\* space (and no other byte is inserted), and comment spans keep their
\* length.
C6_LengthPreserved ==
    (Done /\ self.whitespace) =>
        LET pushed == {k \in 1..Len(self.result) : self.result_src[k] = 0}
        IN  /\ Len(self.result) = Len(self.bytes)
            /\ Cardinality(pushed) = Cardinality(self.stripped)
            /\ \A k \in pushed : self.result[k] = SPACE

\* C6's case: a trailing comma has been stripped from an input that holds
\* a comment span too.
C6_Witness ==
    /\ Done
    /\ self.whitespace
    /\ self.stripped # {}
    /\ \E i \in 1..Len(self.bytes) : Kinds(self.bytes)[i].k \in SpanKinds

\* C7 as stated: with whitespace = false nothing of a single-line comment
\* ended by a lone `\n` is emitted, from its `//` up to and including
\* the `\n`.
C7_LineCommentRemovedWithLF ==
    (Done /\ ~self.whitespace) =>
        LET kinds == Kinds(self.bytes)
        IN  \A i \in 1..Len(self.bytes) :
                kinds[i].k = "LF" =>
                    \A j \in kinds[i].st..i : j \notin Range(self.result_src)

\* C7, amended: with whitespace = false nothing of a single-line comment
\* ended by a lone `\n` is emitted from its `//` up to but not including
\* the `\n`, and the `\n` itself is emitted unchanged.
C7_LineCommentRemovedUpToLF ==
    (Done /\ ~self.whitespace) =>
        LET kinds == Kinds(self.bytes)
        IN  \A i \in 1..Len(self.bytes) :
                kinds[i].k = "LF" =>
                    /\ \A j \in kinds[i].st..(i - 1) :
                          j \notin Range(self.result_src)
                    /\ EmittedUnchanged(self, i)

\* C7's case: a single-line comment with a byte after its `//`, ended by
\* a lone `\n`, has been scanned with whitespace = false.
C7_Witness ==
    /\ Done
    /\ ~self.whitespace
    /\ \E i \in 1..Len(self.bytes) :
          /\ Kinds(self.bytes)[i].k = "LF"
          /\ i >= Kinds(self.bytes)[i].st + 3

\* C8: with trailingCommas = true, a comma that opened a candidate and is
\* followed only by whitespace bytes and then `}` or `]` is not emitted;
\* the whitespace and the bracket after it are emitted unchanged, in order
\* and next to each other; with whitespace = true exactly one space is
\* pushed in the comma's place, with whitespace = false nothing is.
C8_TrailingCommaResolution ==
    (Done /\ self.trailing_commas) =>
        \A c \in self.candidates :
            BeforeCloser(self.bytes, c) =>
                LET r == CloserAfter(self.bytes, c)
                    first == Image(self, c + 1)
                IN  /\ c \in self.stripped
                    /\ c \notin Range(self.result_src)
                    /\ \A j \in (c + 1)..r : EmittedUnchanged(self, j)
                    /\ \A j \in (c + 1)..(r - 1) :
                          Image(self, j + 1) = Image(self, j) + 1
                    /\ IF self.whitespace
                       THEN /\ first > 1
                            /\ self.result_src[first - 1] = 0
                            /\ self.result[first - 1] = SPACE
                            /\ first > 2 => self.result_src[first - 2] # 0
                       ELSE 0 \notin Range(self.result_src)

\* C8's case: a candidate comma after another byte, followed by whitespace
\* and a closing bracket, has been resolved with whitespace = true.
C8_Witness ==
    /\ Done
    /\ self.trailing_commas
    /\ self.whitespace
    /\ \E c \in self.candidates :
          /\ c > 1
          /\ BeforeCloser(self.bytes, c)
          /\ CloserAfter(self.bytes, c) > c + 1

C10_UnterminatedMultiLine ==
    Done =>
        LET n == Len(self.bytes)
            kinds == Kinds(self.bytes)
            open == n > 0 /\ kinds[n].k = "U"
        IN  /\ (self.is_inside_comment = "Multi") <=> open
            /\ open =>
                  \A i \in kinds[n].st..n :
                      LET k == Len(self.result) - (n - i)
                      IN  /\ k >= 1
                          /\ self.result_src[k] = i
                          /\ self.result[k] = self.bytes[i]

\* C10's case: the input ended inside a multi-line comment opened after a
\* trailing-comma candidate, under whitespace = true and
\* trailingCommas = true.
C10_Witness ==
    /\ Done
    /\ self.whitespace
    /\ self.trailing_commas
    /\ self.is_inside_comment = "Multi"
    /\ self.candidates # {}
    /\ Len(self.bytes) >= self.offset + 3

----------------------------------------------------------------------------
(* C11 .. C15                                                              *)

\* The bytes of a UTF-8 text: ASCII, lead byte of a sequence, continuation.
IsAscii(byte) == byte < 128
IsContinuation(byte) == byte >= 128 /\ byte < 192
IsLead(byte) == byte >= 192

\* The length of the sequence a lead byte announces.
SequenceLen(byte) == IF byte < 224 THEN 2 ELSE IF byte < 240 THEN 3 ELSE 4

\* b is well-formed from position i on: every lead byte is followed by the
\* continuation bytes it announces, and no continuation byte stands alone.
RECURSIVE WellFormedFrom(_, _)
WellFormedFrom(b, i) ==
    IF i > Len(b) THEN TRUE
    ELSE IF IsAscii(b[i]) THEN WellFormedFrom(b, i + 1)
    ELSE /\ IsLead(b[i])
         /\ i + SequenceLen(b[i]) - 1 <= Len(b)
         /\ \A j \in (i + 1)..(i + SequenceLen(b[i]) - 1) : IsContinuation(b[j])
         /\ WellFormedFrom(b, i + SequenceLen(b[i]))

WellFormedUtf8(b) == WellFormedFrom(b, 1)

\* C11: UTF-8 validity is preserved.  For a well-formed input, under every
\* option combination, the result finalize converts to a String is
\* well-formed, and every multi-byte sequence of the input is emitted
\* whole and unchanged, or blanked whole, or removed whole.
C11_Utf8Preserved ==
    (Done /\ WellFormedUtf8(self.bytes)) =>
        /\ WellFormedUtf8(self.result)
        /\ \A i \in 1..Len(self.bytes) :
              IsLead(self.bytes[i]) =>
                  LET seq == i..(i + SequenceLen(self.bytes[i]) - 1)
                  IN  \/ /\ \A j \in seq : EmittedUnchanged(self, j)
                         /\ \A j \in seq \ {i} :
                               Image(self, j) = Image(self, j - 1) + 1
                      \/ \A j \in seq :
                            /\ Image(self, j) # 0
                            /\ self.result[Image(self, j)] = SPACE
                      \/ \A j \in seq : j \notin Range(self.result_src)

\* C11's case: a well-formed input with a multi-byte character inside a
\* comment span and another outside every comment has been scanned with
\* whitespace = true.
C11_Witness ==
    /\ Done
    /\ self.whitespace
    /\ WellFormedUtf8(self.bytes)
    /\ \E i, j \in 1..Len(self.bytes) :
          /\ IsLead(self.bytes[i]) /\ Kinds(self.bytes)[i].k \in SpanKinds
          /\ IsLead(self.bytes[j]) /\ Kinds(self.bytes)[j].k = "N"


\* C12: only ASCII bytes are ever altered: under every option combination,
\* every input byte with value >= 0x80, wherever it occurs in the input, is
\* in the output, unchanged.
C12_NonAsciiUnchanged ==
    Done =>
        \A i \in 1..Len(self.bytes) :
            ~IsAscii(self.bytes[i]) => EmittedUnchanged(self, i)


\* C13: totality.  Under every option combination and for every input, at
\* every point of the scan: index <= len, and index < len after each call
\* of process_byte (so the increment that follows never passes len);
\* every slice of bytes taken so far lay within the input and buffer[1..]
\* was only taken from a non-empty buffer; the loop has run at most len
\* times; a step is possible until the String is returned; and the loop is
\* left with index = len.
C13_Totality ==
    /\ self.index <= len(self)
    /\ pc = "inc" => self.index < len(self)
    /\ self.slices_ok
    /\ self.iterations <= len(self)
    /\ Done => self.index = len(self)
    /\ ~Done => ENABLED Next

\* C13's case: the scan of an input ending in an unterminated comment whose
\* last byte is `/`, `*` or `\r` has ended, in fewer iterations than the
\* input has bytes (a delimiter was stepped over as a unit).
C13_Witness ==
    /\ Done
    /\ self.is_inside_comment # "None"
    /\ self.bytes[len(self)] \in {SLASH, STAR, CR}
    /\ self.iterations < len(self)
    /\ self.index = len(self)


\* C14: order preservation under whitespace = false, for both
\* trailingCommas settings: the output is the input with bytes deleted (no
\* byte is inserted, changed or moved), and every deleted byte is inside a
\* comment span or is a comma, outside strings and comments, that the
\* scanner stripped as trailing.
C14_SubsequenceByDeletion ==
    (Done /\ ~self.whitespace) =>
        LET kinds == Kinds(self.bytes)
            src == self.result_src
        IN  /\ Len(src) = Len(self.result)
            /\ \A k \in 1..Len(src) :
                  /\ src[k] \in 1..Len(self.bytes)
                  /\ self.result[k] = self.bytes[src[k]]
            /\ \A k \in 1..(Len(src) - 1) : src[k] < src[k + 1]
            /\ \A i \in 1..Len(self.bytes) :
                  i \notin Range(src) =>
                      \/ kinds[i].k \in SpanKinds
                      \/ /\ i \in self.stripped
                         /\ self.bytes[i] = COMMA
                         /\ kinds[i].k = "N"
            /\ ~self.trailing_commas => self.stripped = {}

\* C14's case: with whitespace = false, a comma was stripped as trailing,
\* the byte after it was emitted, and a comment was removed.
C14_Witness ==
    /\ Done
    /\ ~self.whitespace
    /\ \E j \in self.stripped :
          /\ j \notin Range(self.result_src)
          /\ j + 1 \in Range(self.result_src)
    /\ \E c \in 1..Len(self.bytes) :
          /\ Kinds(self.bytes)[c].k \in SpanKinds
          /\ c \notin Range(self.result_src)


\* Position i is followed only by whitespace bytes and complete comments and
\* then by a `}` or `]` outside strings and comments.
BeforeCloserAcrossComments(b, i) ==
    LET kinds == Kinds(b)
    IN  \E j \in (i + 1)..Len(b) :
            /\ b[j] \in {RBRACE, RBRACKET}
            /\ kinds[j].k = "N"
            /\ \A k \in (i + 1)..(j - 1) :
                  \/ kinds[k].k \in {"LF", "CRLF", "B"}
                  \/ kinds[k].k = "L" /\ \E e \in (k + 1)..(j - 1) :
                        kinds[e].k \in {"LF", "CRLF"} /\ kinds[e].st = kinds[k].st
                  \/ kinds[k].k = "N" /\ b[k] \in {SPACE, TAB, CR, LF}

\* C15: with trailingCommas = true, a comma outside strings and comments
\* that is followed only by whitespace bytes and complete comments and then
\* `}` or `]` is stripped (not emitted), and of the comments in between
\* nothing is emitted with whitespace = false and every byte is blanked in
\* place with whitespace = true.
C15_CandidateAcrossComments ==
    (Done /\ self.trailing_commas) =>
        LET kinds == Kinds(self.bytes)
        IN  \A i \in 1..Len(self.bytes) :
                (/\ self.bytes[i] = COMMA
                 /\ kinds[i].k = "N"
                 /\ BeforeCloserAcrossComments(self.bytes, i)) =>
                    /\ i \in self.stripped
                    /\ i \notin Range(self.result_src)
                    /\ \A k \in (i + 1)..Len(self.bytes) :
                          (kinds[k].k \in {"L", "CRLF", "B"} /\ kinds[k].st > i) =>
                              IF self.whitespace
                              THEN /\ Image(self, k) # 0
                                   /\ self.result[Image(self, k)] = Blanked(self.bytes[k])
                              ELSE k \notin Range(self.result_src)


----------------------------------------------------------------------------
(* C16 .. C20                                                              *)

\* C16: CRLF termination.  A single-line comment ends at a `\r`
\* immediately followed by `\n`, and both bytes belong to its span: with
\* whitespace = true the `\r` and the `\n` are in the output at their
\* positions and every other byte of the span is blanked at its position;
\* with whitespace = false nothing of the span, the two bytes included, is
\* emitted.  The `\n` is never the current byte of an iteration, and the
\* iteration after it starts in no comment.  After a `\r` of the comment
\* that is not followed by `\n` has been processed, the scanner is still
\* in the single-line comment.
C16_CrLfTermination ==
    LET kinds == Kinds(self.bytes)
    IN  /\ Done =>
              \A i \in 1..Len(self.bytes) :
                  kinds[i].k = "CRLF" =>
                      \A j \in kinds[i].st..i :
                          IF self.whitespace
                          THEN /\ j <= Len(self.result)
                               /\ self.result_src[j] = j
                               /\ self.result[j] = IF kinds[j].k = "CRLF"
                                                   THEN self.bytes[j]
                                                   ELSE Blanked(self.bytes[j])
                          ELSE j \notin Range(self.result_src)
        /\ (pc = "loop" /\ self.index < len(self)
               /\ kinds[self.index + 1].k = "CRLF") =>
              /\ self.bytes[self.index + 1] = CR
              /\ self.is_inside_comment = "Single"
        /\ (pc = "loop" /\ self.index > 0 /\ kinds[self.index].k = "CRLF") =>
              /\ self.bytes[self.index] = LF
              /\ self.is_inside_comment = "None"
              /\ self.offset = self.index
        /\ (pc = "inc" /\ kinds[self.index + 1].k = "L"
               /\ self.bytes[self.index + 1] = CR) =>
              self.is_inside_comment = "Single"

\* C16's case: a single-line comment holding a `\r` not followed by `\n`
\* was ended by `\r\n`, with whitespace = false.
C16_Witness ==
    /\ Done
    /\ ~self.whitespace
    /\ \E i, j \in 1..Len(self.bytes) :
          /\ Kinds(self.bytes)[i].k = "CRLF"
          /\ Kinds(self.bytes)[j].k = "L"
          /\ self.bytes[j] = CR
          /\ Kinds(self.bytes)[j].st = Kinds(self.bytes)[i].st


\* C17 as stated: after each call of process_byte and after each increment
\* of index, offset <= index, and offset never decreases from one state to
\* the next.
C17_OffsetNeverPastIndex ==
    [][/\ self'.offset <= self'.index
       /\ self'.offset >= self.offset]_vars

\* The step is a call of process_byte that left a comment through one of
\* the two exits that advance past two bytes (`\r\n`, `*/`).
TwoByteExit ==
    /\ pc = "loop"
    /\ pc' = "inc"
    /\ self.is_inside_comment # "None"
    /\ self'.is_inside_comment = "None"
    /\ self'.index = self.index + 1

\* C17, amended: offset never decreases from one state to the next;
\* offset <= index holds after each increment of index and when the loop
\* is left; after a call of process_byte offset <= index holds unless the
\* call left a comment through `\r\n` or `*/`, and then offset = index + 1
\* (offset is past both bytes, index on the second of them).
C17_OffsetMonotoneAndBounded ==
    [][/\ self'.offset >= self.offset
       /\ pc' \in {"loop", "done"} => self'.offset <= self'.index
       /\ pc' = "inc" =>
             IF TwoByteExit
             THEN /\ self'.offset = self'.index + 1
                  /\ self'.bytes[self'.index + 1] \in {LF, SLASH}
             ELSE self'.offset <= self'.index]_vars

\* C17's case: process_byte has just left a multi-line comment through
\* `*/`: offset is one past index.
C17_Witness ==
    /\ pc = "inc"
    /\ self.is_inside_comment = "None"
    /\ self.offset = self.index + 1
    /\ self.index > 0
    /\ self.bytes[self.index] = STAR
    /\ self.bytes[self.index + 1] = SLASH


\* The scanner is not inside a string and inside a comment at once.
Exclusive(s) == ~(s.is_inside_string /\ s.is_inside_comment # "None")

\* C18: mode exclusivity.  The scanner is never inside a string and
\* inside a comment at once.  The comment mode changes only from or to
\* None, and it leaves None only with the string flag false.  The string
\* flag changes only in a call of process_byte whose current byte is an
\* unescaped `"`, made and ended in no comment; so a `"` processed inside
\* a comment leaves the flag as it is, and a `/*` processed inside a
\* single-line comment or a `//` inside a multi-line comment leaves the
\* mode as it is.
C18_ModeExclusivity ==
    [][LET current == self.bytes[self.index + 1]
           next == IF self.index + 1 < len(self)
                   THEN self.bytes[self.index + 2]
                   ELSE NoByte
           step == pc = "loop" /\ pc' = "inc"
       IN  /\ Exclusive(self)
           /\ Exclusive(self')
           /\ self'.is_inside_comment # self.is_inside_comment =>
                 /\ step
                 /\ "None" \in {self.is_inside_comment, self'.is_inside_comment}
                 /\ self.is_inside_comment = "None" =>
                       ~self.is_inside_string /\ ~self'.is_inside_string
           /\ self'.is_inside_string # self.is_inside_string =>
                 /\ step
                 /\ UnescapedQuote(self.bytes, self.index + 1)
                 /\ self.is_inside_comment = "None"
                 /\ self'.is_inside_comment = "None"
           /\ (step /\ self.is_inside_comment # "None" /\ current = QUOTE) =>
                 self'.is_inside_string = self.is_inside_string
           /\ (step /\ self.is_inside_comment # "None" /\ current = SLASH
                    /\ next \in {SLASH, STAR}) =>
                 self'.is_inside_comment = self.is_inside_comment]_vars

\* C18's case: a `"` has just been processed inside a multi-line comment,
\* and the string flag is still false.
C18_Witness ==
    /\ pc = "inc"
    /\ self.is_inside_comment = "Multi"
    /\ self.bytes[self.index + 1] = QUOTE
    /\ ~self.is_inside_string


\* Position p is the last of its string, comment span or plain byte.
SpanEnd(b, p) == p = Len(b) \/ Kinds(b)[p + 1].st # Kinds(b)[p].st

\* The comment mode in which the byte at position p is processed when
\* delimiters are two-byte units: the first byte of an opener is met in
\* no comment, every byte after the opener in the comment it opened.
ModeAt(b, p) ==
    LET kind == Kinds(b)[p]
    IN  IF kind.k \in {"N", "Q", "S"} \/ p = kind.st THEN "None"
        ELSE IF kind.k \in {"L", "LF", "CRLF"} THEN "Single"
        ELSE "Multi"

\* C19: comment delimiters are consumed as two-byte units.  The current
\* byte of an iteration is never the second byte of an opening `//` or
\* `/*` nor the `/` of a closing `*/`, and it is processed in the mode
\* that the two-byte reading of the text before it gives; so after `/*/`
\* without a later `*/` the multi-line comment is still open at the end,
\* and the byte after a closing `*/` is processed in no comment.
C19_TwoByteDelimiters ==
    LET b == self.bytes
        kinds == Kinds(b)
    IN  /\ (pc = "loop" /\ self.index < len(self)) =>
              LET p == self.index + 1
              IN  /\ self.is_inside_comment = ModeAt(b, p)
                  /\ kinds[p].k \in {"L", "LF", "CRLF", "B", "U"} =>
                        p # kinds[p].st + 1
                  /\ (kinds[p].k = "B" /\ p > kinds[p].st) => ~SpanEnd(b, p)
                  /\ (p > 1 /\ kinds[p - 1].k = "B" /\ kinds[p].st # kinds[p - 1].st) =>
                        /\ self.is_inside_comment = "None"
                        /\ self.offset = self.index
        /\ (Done /\ Len(b) >= 3 /\ SubSeq(b, 1, 3) = <<SLASH, STAR, SLASH>>
                 /\ ~HasClose(b, 3)) =>
              self.is_inside_comment = "Multi"

\* C19's case: the scan of a multi-line comment whose closing `/` is
\* followed by one more `/` has ended in no comment, the last `/` emitted.
C19_Witness ==
    /\ Done
    /\ ~self.whitespace
    /\ self.is_inside_comment = "None"
    /\ \E p \in 1..(Len(self.bytes) - 1) :
          /\ Kinds(self.bytes)[p].k = "B"
          /\ SpanEnd(self.bytes, p)
          /\ self.bytes[p + 1] = SLASH
          /\ p + 1 = Len(self.bytes)
          /\ self.result = <<SLASH>>


\* C20: idempotence under whitespace = true.  For either trailingCommas
\* setting, the String a run returns is the value of strip_json_comments
\* on the input, and strip_json_comments applied to it with the same
\* options returns it unchanged.
C20_Idempotent ==
    (Done /\ self.whitespace) =>
        /\ self.result = strip_json_comments(self.bytes, TRUE, self.trailing_commas)
        /\ strip_json_comments(self.result, TRUE, self.trailing_commas) = self.result

\* C20's case: a run with whitespace = true and trailingCommas = true that
\* blanked a comment and stripped a trailing comma has returned an output
\* different from its input.
C20_Witness ==
    /\ Done
    /\ self.whitespace
    /\ self.trailing_commas
    /\ self.result # self.bytes
    /\ self.stripped # {}
    /\ \E i \in 1..Len(self.bytes) :
          /\ Kinds(self.bytes)[i].k \in SpanKinds
          /\ self.result[i] # self.bytes[i]

====
